---- MODULE Spec2Model ----
(***************************************************************************)
(* Whale ledger of the Polymarket tracker: the SQLite tables whales,       *)
(* trades and markets (database.py), the position scan and whale discovery *)
(* of the tracker (tracker.py), and the resolution passes that settle the  *)
(* trades of a market (resolution_checker.py, money_maker_scheduler.py).   *)
(*                                                                         *)
(* Prices are kept in hundredths (50 stands for 0.50) and sizes in whole   *)
(* dollars; the value sets are chosen so that every quotient the code      *)
(* computes in floating point is an exact integer here.                    *)
(***************************************************************************)
EXTENDS Integers, Sequences, FiniteSets, TLC

VARIABLES whales,   \* table whales: address -> row
          trades,   \* table trades: row id (1..Len) -> row
          markets,  \* table markets: market_id -> row
          now,      \* wall clock, hours (UTC)
          tz,       \* offset of the host's local time from UTC, hours
          pc,       \* per resolution run: "idle", "loop" or "write"
          pending,  \* per run: market ids of the pass not yet checked
          cur,      \* per run: market_id and winner of the check in hand
          snap,     \* per run: ids returned by the SELECT of resolve_market_trades
          dbpc,     \* Database.resolve_market in flight: "idle", "trade" or "stats"
          dbq,      \* its SELECTed trade ids not yet resolved, in id order
          dbres,    \* its resolution argument
          call,     \* a call made from outside the passes: operation and arguments
          ret       \* what that call returned

vars == <<whales, trades, markets, now, tz, pc, pending, cur, snap, dbpc, dbq, dbres,
          call, ret>>
ledger == <<whales, trades, markets>>
runState == <<pc, pending, cur, snap>>
dbState == <<dbpc, dbq, dbres>>
callState == <<call, ret>>

----------------------------------------------------------------------------
(* Bounds of the model *)

MaxTrades == 2
MaxFeed == 2
MaxTokens == 2
MaxDays == 1

----------------------------------------------------------------------------
(* Values *)

Null == <<>>
Some(v) == <<v>>

Addresses == {"w1", "w2"}
MarketA == <<"0", "x", "a">>
MarketB == <<"0", "x", "b">>
NoMarket == <<>>
Runs == {"tracker", "scheduler"}
Winners == {"YES", "NO"}
OracleResults == {"NONE", "YES", "NO"}
NoCall == [op |-> "none"]

\* str.upper() on the outcome strings that occur
Upper(s) ==
  CASE s \in {"Yes", "yes", "YES"} -> "YES"
    [] s \in {"No", "no", "NO"} -> "NO"
    [] OTHER -> s

MinPositionSize == 5000
QuickLimit == 100
QuickWindowHours == 48
DefaultEntryPrice == 50
WinPrice == 99

----------------------------------------------------------------------------
(* Queries *)

IsUnresolved(t) == t.resolved = FALSE

\* SQL: market_id LIKE '0x%' (LIKE is case-insensitive on ASCII)
LikeHex(m) == Len(m) >= 2 /\ m[1] = "0" /\ m[2] \in {"x", "X"}

\* a lookup that sees open positions only
trade_exists_open(T, whale_address, market_id, side) ==
  \E i \in DOMAIN T : /\ T[i].whale_address = whale_address
                      /\ T[i].market_id = market_id
                      /\ T[i].side = side
                      /\ ~T[i].resolved

trade_exists(T, whale_address, market_id, side) ==
  \E i \in DOMAIN T : /\ T[i].whale_address = whale_address
                      /\ T[i].market_id = market_id
                      /\ T[i].side = side

\* the unresolved markets as Database.get_unresolved_markets selects them:
\* joined with the markets table on m.resolved = FALSE
UnresolvedMarketsJoin ==
  {trades[i].market_id : i \in {j \in DOMAIN trades :
       /\ IsUnresolved(trades[j])
       /\ trades[j].market_id \in DOMAIN markets
       /\ ~markets[trades[j].market_id].resolved}}

get_unresolved_market_ids ==
  {trades[i].market_id : i \in {j \in DOMAIN trades :
       IsUnresolved(trades[j]) /\ LikeHex(trades[j].market_id)}}

\* the same SELECT without "AND (resolved = 0 OR resolved IS NULL)"
IdsOfMarket(m) == {i \in DOMAIN trades : trades[i].market_id = m}

\* the same SELECT without "market_id = ?"
UnresolvedIdsAnyMarket(m) == {i \in DOMAIN trades : IsUnresolved(trades[i])}

\* SELECT * FROM trades with no WHERE clause
get_all_trades(T) == [i \in DOMAIN T |-> T[i]]

\* SELECT * FROM trades WHERE resolved = FALSE, rows keyed by id
get_unresolved_trades(T) ==
  [i \in {j \in DOMAIN T : T[j].resolved = FALSE} |-> T[i]]

UnresolvedIds(m) ==
  {i \in DOMAIN trades : trades[i].market_id = m /\ IsUnresolved(trades[i])}

\* Day of a time given in hours; the stored entry_time is written
\* "YYYY-MM-DD HH:MM:SS" and the cutoff "YYYY-MM-DDTHH:MM:SS", so the string
\* comparison entry_time >= cutoff is decided by the dates alone when they
\* differ and is false when they are equal (" " sorts before "T").
DayOf(h) == h \div 24
QuickCutoff == (now + tz) - QuickWindowHours
EntryTimeGeCutoff(t) == DayOf(t.entry_time) > DayOf(QuickCutoff)

RecentMarketIds ==
  {trades[i].market_id : i \in {j \in DOMAIN trades :
       IsUnresolved(trades[j]) /\ EntryTimeGeCutoff(trades[j])}}

----------------------------------------------------------------------------
(* Database.add_whale / update_whale_volume, WhaleTracker.discover_whales *)

NewWhaleRow(total_volume, notes) ==
  [first_seen |-> now, total_volume |-> total_volume,
   win_count |-> 0, loss_count |-> 0, notes |-> notes]

\* INSERT OR REPLACE in place of INSERT OR IGNORE
add_whale_replace(W, address, total_volume, notes) ==
  [x \in DOMAIN W \cup {address} |->
     IF x = address THEN NewWhaleRow(total_volume, notes) ELSE W[x]]

\* INSERT OR IGNORE INTO whales (address, first_seen, total_volume, notes)
add_whale(W, address, total_volume, notes) ==
  IF address \in DOMAIN W THEN W
  ELSE [x \in DOMAIN W \cup {address} |->
          IF x = address THEN NewWhaleRow(total_volume, notes) ELSE W[x]]

\* what add_whale returns: cursor.rowcount > 0
add_whale_created(W, address) == address \notin DOMAIN W

\* the same UPDATE that also sets win_count = 0, loss_count = 0
update_whale_volume_reset(W, address, total_volume) ==
  [a \in DOMAIN W |->
     IF a = address
       THEN [W[a] EXCEPT !.total_volume = total_volume, !.win_count = 0,
                         !.loss_count = 0]
       ELSE W[a]]

\* UPDATE whales SET total_volume = ? WHERE address = ?
update_whale_volume(W, address, total_volume) ==
  [a \in DOMAIN W |->
     IF a = address THEN [W[a] EXCEPT !.total_volume = total_volume] ELSE W[a]]

\* discover_whales: add_whale, and on an existing address update_whale_volume
add_whale_or_update(W, a, volume) ==
  IF add_whale_created(W, a)
    THEN add_whale(W, a, volume, Null)
    ELSE update_whale_volume(add_whale(W, a, volume, Null), a, volume)

RECURSIVE DiscoverFold(_, _, _)
DiscoverFold(W, found, todo) ==
  IF todo = {} THEN W
  ELSE LET a == CHOOSE x \in todo : TRUE
       IN DiscoverFold(add_whale_or_update(W, a, found[a]), found, todo \ {a})

DiscoverWhales(Found, Volumes) ==
  /\ pc["tracker"] = "idle"
  /\ \E S \in SUBSET Found : S # {} /\
       \E found \in [S -> Volumes] :
          whales' = DiscoverFold(whales, found, S)
  /\ UNCHANGED <<trades, markets, now, tz, callState, runState, dbState>>

----------------------------------------------------------------------------
(* Database.add_market, Database.add_trade, WhaleTracker.check_whale_positions *)

NewMarketRow == [resolved |-> FALSE, resolution |-> Null]

\* INSERT OR IGNORE INTO markets
add_market(M, market_id) ==
  IF market_id \in DOMAIN M THEN M
  ELSE [x \in DOMAIN M \cup {market_id} |->
          IF x = market_id THEN NewMarketRow ELSE M[x]]

NewTradeRow(whale_address, market_id, side, size, entry_price) ==
  [whale_address |-> whale_address, market_id |-> market_id, side |-> side,
   size |-> size, entry_price |-> entry_price, entry_time |-> now,
   resolved |-> FALSE, outcome |-> Null, pnl |-> Null]

\* INSERT INTO trades: the new row takes the next id
add_trade(T, whale_address, market_id, side, size, entry_price) ==
  Append(T, NewTradeRow(whale_address, market_id, side, size, entry_price))

Max(a, b) == IF a >= b THEN a ELSE b

\* PolymarketAPI.get_active_positions_for_wallet: the larger of size and
\* currentValue is the position's size, positions below min_size are
\* dropped, the outcome is upper-cased
RECURSIVE ActivePositions(_)
ActivePositions(raw) ==
  IF raw = <<>> THEN <<>>
  ELSE LET p == Head(raw)
           value == Max(p.size, p.currentValue)
           rest == ActivePositions(Tail(raw))
       IN IF value >= MinPositionSize
            THEN <<[market_id |-> p.conditionId, side |-> Upper(p.outcome),
                    size |-> value, entry_price |-> p.avgPrice]>> \o rest
            ELSE rest

\* the loop body of check_whale_positions for one position
ScanOne(S, whale_address, pos) ==
  IF pos.market_id = NoMarket THEN S
  ELSE IF trade_exists(S.trades, whale_address, pos.market_id, pos.side) THEN S
  ELSE [trades |-> add_trade(S.trades, whale_address, pos.market_id, pos.side,
                             pos.size, pos.entry_price),
        markets |-> add_market(S.markets, pos.market_id)]

RECURSIVE ScanFold(_, _, _)
ScanFold(S, whale_address, positions) ==
  IF positions = <<>> THEN S
  ELSE ScanFold(ScanOne(S, whale_address, Head(positions)), whale_address,
                Tail(positions))

RawFeeds(Raw) == UNION {[1..n -> Raw] : n \in 1..MaxFeed}

\* one iteration of the monitoring loop over get_all_whales()
CheckWhalePositions(Raw) ==
  /\ pc["tracker"] = "idle"
  /\ \E whale_address \in DOMAIN whales : \E raw \in RawFeeds(Raw) :
       LET S == ScanFold([trades |-> trades, markets |-> markets],
                         whale_address, ActivePositions(raw))
       IN /\ Len(S.trades) <= MaxTrades
          /\ trades' = S.trades
          /\ markets' = S.markets
  /\ UNCHANGED <<whales, now, tz, callState, runState, dbState>>

----------------------------------------------------------------------------
(* ResolutionChecker.check_market_resolution.  A feed is the sequence of   *)
(* answers the CLOB API gives to the successive requests for one market;  *)
(* an answer is a timeout, a connection error or an HTTP response.  A      *)
(* token is "ok" (a dict with a numeric price), "badprice" (a dict whose   *)
(* price is no number) or "notdict".  Prices are in hundredths.            *)

Tokens ==
  [kind : {"ok"}, outcome : {"Yes", "No", "Maybe"}, winner : BOOLEAN,
   price : {1, 99, 100}]
  \cup [kind : {"badprice"}, outcome : {"Yes"}, winner : BOOLEAN, price : {0}]
  \cup [kind : {"notdict"}, outcome : {""}, winner : {FALSE}, price : {0}]

TokenLists(K) == UNION {[1..n -> K] : n \in 0..MaxTokens}

Bodies == [closed : BOOLEAN, tokens : TokenLists(Tokens)]

Responses ==
  {[kind |-> "http", status |-> 200, body |-> Some(b)] : b \in Bodies}
  \cup [kind : {"http"}, status : {200, 404, 429, 500}, body : {Null}]
  \cup [kind : {"timeout", "error"}, status : {0}, body : {Null}]

TooManyRequests == [kind |-> "http", status |-> 429, body |-> Null]

OracleFeeds == {<<a>> : a \in Responses} \cup {<<TooManyRequests, a>> : a \in Responses}

\* first loop: the outcome of the first token flagged as winner, if YES or NO
RECURSIVE FlaggedWinner(_)
FlaggedWinner(tokens) ==
  IF tokens = <<>> THEN "NONE"
  ELSE LET token == Head(tokens)
       IN IF token.kind = "notdict" THEN "RAISE"
          ELSE IF token.winner /\ Upper(token.outcome) \in Winners
                 THEN Upper(token.outcome)
                 ELSE FlaggedWinner(Tail(tokens))

\* second loop: the outcome of the first token with price > 0.99, if YES or NO
RECURSIVE PriceWinner(_)
PriceWinner(tokens) ==
  IF tokens = <<>> THEN "NONE"
  ELSE LET token == Head(tokens)
       IN IF token.kind # "ok" THEN "RAISE"
          ELSE IF token.price > WinPrice /\ Upper(token.outcome) \in Winners
                 THEN Upper(token.outcome)
                 ELSE PriceWinner(Tail(tokens))

\* the body of the try block: a winner, "NONE", or the exception raised
ParseResponse(a) ==
  IF a.kind = "timeout" THEN "TIMEOUT"
  ELSE IF a.kind = "error" THEN "RAISE"
  ELSE IF a.status # 200 THEN "NONE"
  ELSE IF a.body = Null THEN "NONE"
  ELSE IF ~a.body[1].closed THEN "NONE"
  ELSE LET winner == FlaggedWinner(a.body[1].tokens)
       IN IF winner # "NONE" THEN winner ELSE PriceWinner(a.body[1].tokens)

\* the handlers without "except Exception"
HandlersTimeoutOnly(x) == IF x = "TIMEOUT" THEN "NONE" ELSE x

\* except asyncio.TimeoutError / except Exception: return None
Handlers(x) == IF x \in {"TIMEOUT", "RAISE"} THEN "NONE" ELSE x

\* one GET, its answer evaluated once
check_market_resolution(feed) == Handlers(ParseResponse(Head(feed)))

----------------------------------------------------------------------------
(* ResolutionChecker.resolve_market_trades *)

Won(t, winner) == Upper(t.side) = winner

\* entry_price = float(trade['entry_price'] or 0.5)
EntryPriceOrDefault(t) == IF t.entry_price = 0 THEN DefaultEntryPrice ELSE t.entry_price

Shares(size, entry_price) ==
  IF entry_price > 0 THEN (size * 100) \div entry_price ELSE 0

TradePnl(t, winner) ==
  IF Won(t, winner) THEN Shares(t.size, EntryPriceOrDefault(t)) - t.size
  ELSE 0 - t.size

TradeOutcome(t, winner) == IF Won(t, winner) THEN "WIN" ELSE "LOSS"

\* the same UPDATE without "pnl = ?"
ResolvedRowNoPnl(t, winner) ==
  [t EXCEPT !.resolved = TRUE, !.outcome = Some(TradeOutcome(t, winner))]

\* UPDATE trades SET resolved = 1, outcome = ?, pnl = ? WHERE id = ?
ResolvedRow(t, winner) ==
  [t EXCEPT !.resolved = TRUE,
            !.outcome = Some(TradeOutcome(t, winner)),
            !.pnl = Some(TradePnl(t, winner))]

TradesAfter(ids, winner) ==
  [i \in DOMAIN trades |->
     IF i \in ids THEN ResolvedRow(trades[i], winner) ELSE trades[i]]

\* whale_updates[whale]["wins"] and ["losses"] of the batch
BatchWins(a, ids, winner) ==
  Cardinality({i \in ids : trades[i].whale_address = a /\ Won(trades[i], winner)})
BatchLosses(a, ids, winner) ==
  Cardinality({i \in ids : trades[i].whale_address = a /\ ~Won(trades[i], winner)})

\* the flush moved into the loop over the trades: once per trade of the whale
WhalesAfterPerTrade(ids, winner) ==
  [a \in DOMAIN whales |->
     LET n == Cardinality({i \in ids : trades[i].whale_address = a})
     IN [whales[a] EXCEPT !.win_count = @ + n * BatchWins(a, ids, winner),
                          !.loss_count = @ + n * BatchLosses(a, ids, winner)]]

\* one UPDATE whales per whale of the batch that has a row
WhalesAfter(ids, winner) ==
  [a \in DOMAIN whales |->
     [whales[a] EXCEPT !.win_count = @ + BatchWins(a, ids, winner),
                       !.loss_count = @ + BatchLosses(a, ids, winner)]]

\* UPDATE markets SET resolved = 1, resolution = ? WHERE market_id = ?
MarketsAfter(market_id, winner) ==
  [x \in DOMAIN markets |->
     IF x = market_id THEN [resolved |-> TRUE, resolution |-> Some(winner)]
     ELSE markets[x]]

----------------------------------------------------------------------------
(* Resolution passes: ResolutionChecker.check_all_unresolved and           *)
(* MoneyMakerScheduler._quick_resolution_check                             *)

BeginPass(r, ids) ==
  /\ pc[r] = "idle"
  /\ ids # {}
  /\ pending' = [pending EXCEPT ![r] = ids]
  /\ pc' = [pc EXCEPT ![r] = "loop"]
  /\ UNCHANGED <<ledger, now, tz, callState, cur, snap, dbState>>

StartFull(r) == BeginPass(r, get_unresolved_market_ids)

\* LIMIT 100 keeps any QuickLimit of the distinct ids
StartQuick(r) ==
  /\ r = "scheduler"
  /\ \E ids \in SUBSET RecentMarketIds :
       /\ \/ ids = RecentMarketIds
          \/ Cardinality(ids) = QuickLimit
       /\ BeginPass(r, ids)

NoCheck == [market_id |-> NoMarket, winner |-> "NONE"]

\* the loop moves on to the next market id, or the pass returns
AfterMarket(r, m) ==
  /\ pending' = [pending EXCEPT ![r] = @ \ {m}]
  /\ pc' = [pc EXCEPT ![r] = IF pending[r] \ {m} = {} THEN "idle" ELSE "loop"]
  /\ cur' = [cur EXCEPT ![r] = NoCheck]
  /\ snap' = [snap EXCEPT ![r] = {}]

\* check_market_resolution(m) answered res, and on a winner the SELECT of
\* resolve_market_trades has run
CheckMarketAs(r, m, res) ==
  /\ pc[r] = "loop"
  /\ m \in pending[r]
  /\ IF res = "NONE"
       THEN AfterMarket(r, m)
       ELSE /\ cur' = [cur EXCEPT ![r] = [market_id |-> m, winner |-> res]]
            /\ snap' = [snap EXCEPT ![r] = UnresolvedIds(m)]
            /\ pc' = [pc EXCEPT ![r] = "write"]
            /\ UNCHANGED pending
  /\ UNCHANGED <<ledger, now, tz, callState, dbState>>

CheckMarket(r) ==
  \E m \in pending[r] : \E res \in OracleResults : CheckMarketAs(r, m, res)

\* the UPDATEs of resolve_market_trades and its commit
WriteResolution(r) ==
  /\ pc[r] = "write"
  /\ trades' = TradesAfter(snap[r], cur[r].winner)
  /\ whales' = WhalesAfter(snap[r], cur[r].winner)
  /\ markets' = MarketsAfter(cur[r].market_id, cur[r].winner)
  /\ AfterMarket(r, cur[r].market_id)
  /\ UNCHANGED <<now, tz, callState, dbState>>

----------------------------------------------------------------------------
(* Database.resolve_market, resolve_trades_by_market, resolve_trade,       *)
(* update_whale_stats: every statement is committed on its own             *)

RECURSIVE SortedSeq(_)
SortedSeq(S) ==
  IF S = {} THEN <<>>
  ELSE LET lo == CHOOSE x \in S : \A y \in S : x <= y
       IN <<lo>> \o SortedSeq(S \ {lo})

DbWon(t, resolution) ==
  \/ Upper(t.side) = "YES" /\ resolution = "YES"
  \/ Upper(t.side) = "NO" /\ resolution = "NO"

DbOutcome(t, resolution) == IF DbWon(t, resolution) THEN "WIN" ELSE "LOSS"

\* won: size * (1 - entry_price); lost: -size * entry_price
DbPnl(t, resolution) ==
  IF DbWon(t, resolution) THEN (t.size * (100 - t.entry_price)) \div 100
  ELSE 0 - ((t.size * t.entry_price) \div 100)

\* UPDATE trades SET resolved = TRUE, outcome = ?, pnl = ? WHERE id = ?
resolve_trade(T, trade_id, outcome, pnl) ==
  [i \in DOMAIN T |->
     IF i = trade_id
       THEN [T[i] EXCEPT !.resolved = TRUE, !.outcome = Some(outcome), !.pnl = Some(pnl)]
       ELSE T[i]]

\* UPDATE whales SET win_count = ?, loss_count = ? WHERE address = ?
update_whale_stats(W, address, win_count, loss_count) ==
  [a \in DOMAIN W |->
     IF a = address
       THEN [W[a] EXCEPT !.win_count = win_count, !.loss_count = loss_count]
       ELSE W[a]]

\* resolve_market: the UPDATE of markets is committed, then
\* resolve_trades_by_market SELECTs the unresolved trades of the market
DbResolveMarket(market_id, resolution) ==
  /\ dbpc = "idle"
  /\ markets' = MarketsAfter(market_id, resolution)
  /\ dbq' = SortedSeq(UnresolvedIds(market_id))
  /\ dbpc' = IF UnresolvedIds(market_id) = {} THEN "idle" ELSE "trade"
  /\ dbres' = IF UnresolvedIds(market_id) = {} THEN "NONE" ELSE resolution
  /\ UNCHANGED <<whales, trades, now, tz, callState, runState>>

\* loop body, first half: self.resolve_trade(...) and its commit
DbResolveTrade ==
  /\ dbpc = "trade"
  /\ LET t == trades[Head(dbq)]
     IN trades' = resolve_trade(trades, Head(dbq), DbOutcome(t, dbres), DbPnl(t, dbres))
  /\ dbpc' = "stats"
  /\ UNCHANGED <<whales, markets, now, tz, callState, runState, dbq, dbres>>

\* loop body, second half: get_whale, update_whale_stats and its commit
DbUpdateStats ==
  /\ dbpc = "stats"
  /\ LET t == trades[Head(dbq)]
         a == t.whale_address
     IN IF a \in DOMAIN whales
          THEN IF DbOutcome(t, dbres) = "WIN"
                 THEN whales' = update_whale_stats(whales, a,
                                  whales[a].win_count + 1, whales[a].loss_count)
                 ELSE whales' = update_whale_stats(whales, a,
                                  whales[a].win_count, whales[a].loss_count + 1)
          ELSE whales' = whales
  /\ dbq' = Tail(dbq)
  /\ dbpc' = IF Tail(dbq) = <<>> THEN "idle" ELSE "trade"
  /\ dbres' = IF Tail(dbq) = <<>> THEN "NONE" ELSE dbres
  /\ UNCHANGED <<trades, markets, now, tz, callState, runState>>

\* the process is killed, or the loop raises, between two commits
DbCrash ==
  /\ dbpc # "idle"
  /\ dbpc' = "idle"
  /\ dbq' = <<>>
  /\ dbres' = "NONE"
  /\ UNCHANGED <<ledger, now, tz, callState, runState>>

\* a run is killed: what resolve_market_trades has not committed is rolled back
RunCrash(r) ==
  /\ pc[r] # "idle"
  /\ pc' = [pc EXCEPT ![r] = "idle"]
  /\ pending' = [pending EXCEPT ![r] = {}]
  /\ cur' = [cur EXCEPT ![r] = NoCheck]
  /\ snap' = [snap EXCEPT ![r] = {}]
  /\ UNCHANGED <<ledger, now, tz, callState, dbState>>

\* resolve_market_trades raises (sqlite3.OperationalError from execute or
\* commit): nothing of it is committed, and the exception leaves the loop of
\* the pass, which has no handler around the call
WriteRaises(r) ==
  /\ pc[r] = "write"
  /\ pc' = [pc EXCEPT ![r] = "idle"]
  /\ pending' = [pending EXCEPT ![r] = {}]
  /\ cur' = [cur EXCEPT ![r] = NoCheck]
  /\ snap' = [snap EXCEPT ![r] = {}]
  /\ UNCHANGED <<ledger, now, tz, callState, dbState>>

----------------------------------------------------------------------------
(* Direct calls of the store *)

AddTradeCall(Owners, MarketIds, Sizes, Prices) ==
  /\ Len(trades) < MaxTrades
  /\ \E a \in Owners : \E m \in MarketIds : \E side \in Winners :
       \E size \in Sizes : \E price \in Prices :
         trades' = add_trade(trades, a, m, side, size, price)
  /\ UNCHANGED <<whales, markets, now, tz, callState, runState, dbState>>

AddWhaleCall(Owners, Volumes, Notes) ==
  /\ call = NoCall
  /\ \E a \in Owners : \E volume \in Volumes : \E notes \in Notes :
       /\ whales' = add_whale(whales, a, volume, notes)
       /\ call' = [op |-> "add_whale", address |-> a, total_volume |-> volume,
                   notes |-> notes]
       /\ ret' = Some(add_whale_created(whales, a))
  /\ UNCHANGED <<trades, markets, now, tz, runState, dbState>>

UpdateWhaleVolumeCall(Owners, Volumes) ==
  /\ call = NoCall
  /\ \E a \in Owners : \E volume \in Volumes :
       /\ whales' = update_whale_volume(whales, a, volume)
       /\ call' = [op |-> "update_whale_volume", address |-> a,
                   total_volume |-> volume, notes |-> Null]
       /\ ret' = Null
  /\ UNCHANGED <<trades, markets, now, tz, runState, dbState>>

Min(a, b) == IF a <= b THEN a ELSE b

\* round(num / den, 0) for den > 0, ties to the even neighbour
RoundHalfEven(num, den) ==
  LET q == (2 * num + den) \div (2 * den)
  IN IF (2 * num + den) % (2 * den) = 0 /\ q % 2 = 1 THEN q - 1 ELSE q

RECURSIVE SumRows(_, _, _)
SumRows(T, ids, field) ==
  IF ids = {} THEN 0
  ELSE LET i == CHOOSE j \in ids : TRUE
       IN (IF field = "pnl" THEN T[i].pnl[1] ELSE T[i].size)
          + SumRows(T, ids \ {i}, field)

\* list.sort(key=lambda x: x[field], reverse=True), a stable sort
RECURSIVE InsertDescBy(_, _, _)
InsertDescBy(sorted, x, field) ==
  IF sorted = <<>> THEN <<x>>
  ELSE IF x[field] > Head(sorted)[field] THEN <<x>> \o sorted
  ELSE <<Head(sorted)>> \o InsertDescBy(Tail(sorted), x, field)

RECURSIVE SortDescBy(_, _)
SortDescBy(s, field) ==
  IF s = <<>> THEN <<>>
  ELSE InsertDescBy(SortDescBy(SubSeq(s, 1, Len(s) - 1), field), s[Len(s)], field)

\* the groups come in the order of the address
AddressOrder == <<"w1", "w2">>

\* PerformanceAnalyzer.get_whale_performance: the core metrics over the
\* resolved trades of one whale, None below min_resolved_trades; win_rate
\* and roi are round(x, 1) in tenths of a percent
ResolvedRowsOf(T, whale_address) ==
  {i \in DOMAIN T : T[i].whale_address = whale_address /\ T[i].resolved}

PerformanceOver(T, rows, min_resolved_trades) ==
  IF Cardinality(rows) < min_resolved_trades THEN Null
  ELSE LET total_trades == Cardinality(rows)
           win_count == Cardinality({i \in rows : T[i].outcome = Some("WIN")})
           loss_count == Cardinality({i \in rows : T[i].outcome = Some("LOSS")})
           total_wagered == SumRows(T, rows, "size")
           total_pnl == SumRows(T, rows, "pnl")
       IN Some([total_trades |-> total_trades,
                win_count |-> win_count,
                loss_count |-> loss_count,
                win_rate |-> RoundHalfEven(win_count * 1000, total_trades),
                total_wagered |-> total_wagered,
                total_pnl |-> total_pnl,
                roi |-> IF total_wagered > 0
                          THEN RoundHalfEven(total_pnl * 1000, total_wagered)
                          ELSE 0,
                is_profitable |-> total_pnl > 0])

\* a gate that asks for one resolved trade whatever the minimum
get_whale_performance_nonempty(T, whale_address, min_resolved_trades) ==
  PerformanceOver(T, ResolvedRowsOf(T, whale_address), Min(min_resolved_trades, 1))

get_whale_performance(T, whale_address, min_resolved_trades) ==
  PerformanceOver(T, ResolvedRowsOf(T, whale_address), min_resolved_trades)

\* PerformanceAnalyzer.get_qualified_whales: the whales with at least
\* min_resolved_trades resolved trades (a SELECT, nothing is written)
WhaleCandidates(min_resolved_trades) ==
  {a \in {trades[i].whale_address : i \in DOMAIN trades} :
     Cardinality({i \in DOMAIN trades :
        trades[i].whale_address = a /\ trades[i].resolved}) >= min_resolved_trades}

\* the candidates, each with its number of resolved trades, in address order
RECURSIVE CandidateRows(_, _)
CandidateRows(order, min_resolved_trades) ==
  IF order = <<>> THEN <<>>
  ELSE (IF Head(order) \in WhaleCandidates(min_resolved_trades)
          THEN <<[whale_address |-> Head(order),
                  resolved_count |-> Cardinality(ResolvedRowsOf(trades, Head(order)))]>>
          ELSE <<>>) \o CandidateRows(Tail(order), min_resolved_trades)

\* the loop over whale_candidates: a performance that is not None is kept
RECURSIVE QualifiedOf(_, _)
QualifiedOf(candidates, min_resolved_trades) ==
  IF candidates = <<>> THEN <<>>
  ELSE LET performance == get_whale_performance(trades, Head(candidates).whale_address,
                                                min_resolved_trades)
       IN (IF performance # Null
             THEN <<[address |-> Head(candidates).whale_address,
                     performance |-> performance[1]]>>
             ELSE <<>>) \o QualifiedOf(Tail(candidates), min_resolved_trades)

get_qualified_whales(min_resolved_trades) ==
  QualifiedOf(SortDescBy(CandidateRows(AddressOrder, min_resolved_trades),
                         "resolved_count"),
              min_resolved_trades)

QualifiedWhalesCall(Mins) ==
  /\ call = NoCall
  /\ \E min_resolved_trades \in Mins :
       /\ call' = [op |-> "get_qualified_whales", address |-> "",
                   total_volume |-> min_resolved_trades, notes |-> Null]
       /\ ret' = Some(get_qualified_whales(min_resolved_trades))
  /\ UNCHANGED <<ledger, now, tz, runState, dbState>>

\* the call has returned to its caller
ReturnCall ==
  /\ call # NoCall
  /\ call' = NoCall
  /\ ret' = Null
  /\ UNCHANGED <<ledger, now, tz, runState, dbState>>

\* a day passes
Tick ==
  /\ now < 24 * MaxDays
  /\ now' = now + 24
  /\ UNCHANGED <<ledger, tz, runState, dbState, callState>>

ResolveTradeCall(Pnls) ==
  /\ \E trade_id \in DOMAIN trades : \E outcome \in {"WIN", "LOSS"} : \E pnl \in Pnls :
       trades' = resolve_trade(trades, trade_id, outcome, pnl)
  /\ UNCHANGED <<whales, markets, now, tz, callState, runState, dbState>>

----------------------------------------------------------------------------
(* The program run by one worker: scans, discovery, passes and calls of    *)
(* Database.resolve_market one after another                               *)

AllIdle == \A r \in Runs : pc[r] = "idle"
Quiet == AllIdle /\ dbpc = "idle"

FeedVolumes == {50000}
RawPositions ==
  [conditionId : {MarketA, MarketB}, outcome : {"Yes", "No"},
   size : {5000}, currentValue : {5000}, avgPrice : {50}]
  \cup {[conditionId |-> NoMarket, outcome |-> "Yes", size |-> 5000,
         currentValue |-> 5000, avgPrice |-> 50],
        [conditionId |-> MarketA, outcome |-> "Yes", size |-> 100,
         currentValue |-> 100, avgPrice |-> 50],
        [conditionId |-> MarketB, outcome |-> "No", size |-> 100,
         currentValue |-> 5000, avgPrice |-> 50]}

\* the empty database, no pass running
LedgerInit ==
  /\ whales = <<>>
  /\ trades = <<>>
  /\ markets = <<>>
  /\ now = 0
  /\ tz = 0
  /\ pc = [r \in Runs |-> "idle"]
  /\ pending = [r \in Runs |-> {}]
  /\ cur = [r \in Runs |-> NoCheck]
  /\ snap = [r \in Runs |-> {}]
  /\ dbpc = "idle"
  /\ dbq = <<>>
  /\ dbres = "NONE"

Init ==
  /\ LedgerInit
  /\ call = NoCall
  /\ ret = Null

Next ==
  \/ Quiet /\ DiscoverWhales(Addresses, FeedVolumes)
  \/ Quiet /\ CheckWhalePositions(RawPositions)
  \/ \E r \in Runs : Quiet /\ StartFull(r)
  \/ \E r \in Runs : Quiet /\ StartQuick(r)
  \/ \E r \in Runs : dbpc = "idle" /\ CheckMarket(r)
  \/ \E r \in Runs : dbpc = "idle" /\ WriteResolution(r)

Spec == Init /\ [][Next]_vars

(* The monitoring loop keeps running: a cycle always comes to its full     *)
(* pass, a pass that has started checks its markets and writes what it     *)
(* found, and a market that has settled is in the end reported with its    *)
(* winner when it is asked for                                             *)

Fairness ==
  /\ SF_vars(\E r \in Runs : Quiet /\ StartFull(r))
  /\ \A r \in Runs : WF_vars(CheckMarket(r)) /\ WF_vars(WriteResolution(r))
  /\ \A m \in {MarketA, MarketB} :
       SF_vars(\E r \in Runs : \E res \in Winners : CheckMarketAs(r, m, res))

SpecLive == Spec /\ Fairness

(* The store called directly: add_whale, add_market, add_trade,            *)
(* resolve_trade and resolve_market, and the passes of one run in between  *)

StoreOwners == {"w1"}
StoreMarkets == {MarketA}
StoreSizes == {5000}
StorePrices == {50}
\* a pnl argument that no resolution pass computes
StorePnls == {7}

AddMarketCall(MarketIds) ==
  /\ \E m \in MarketIds : markets' = add_market(markets, m)
  /\ UNCHANGED <<whales, trades, now, tz, callState, runState, dbState>>

NextStore ==
  \/ Quiet /\ DiscoverWhales(StoreOwners, FeedVolumes)
  \/ Quiet /\ AddMarketCall(StoreMarkets)
  \/ Quiet /\ AddTradeCall(StoreOwners, StoreMarkets, StoreSizes, StorePrices)
  \/ Quiet /\ ResolveTradeCall(StorePnls)
  \/ Quiet /\ StartFull("tracker")
  \/ dbpc = "idle" /\ CheckMarket("tracker")
  \/ dbpc = "idle" /\ WriteResolution("tracker")
  \/ \E m \in StoreMarkets : \E res \in Winners : Quiet /\ DbResolveMarket(m, res)
  \/ DbResolveTrade
  \/ DbUpdateStats

SpecStore == Init /\ [][NextStore]_vars

(* Resolution runs of two processes, each on its own connection; SQLite    *)
(* serialises their transactions, not their SELECT-then-UPDATE sequences   *)

NextConc ==
  \/ DiscoverWhales(Addresses, FeedVolumes)
  \/ CheckWhalePositions(RawPositions)
  \/ \E r \in Runs : StartFull(r)
  \/ \E r \in Runs : StartQuick(r)
  \/ \E r \in Runs : CheckMarket(r)
  \/ \E r \in Runs : WriteResolution(r)

SpecConc == Init /\ [][NextConc]_vars

(* The worker's operations and Database.resolve_market, any of which may   *)
(* be killed while in flight                                               *)

NextCrash ==
  \/ Next
  \/ \E m \in {MarketA, MarketB} : \E res \in Winners : Quiet /\ DbResolveMarket(m, res)
  \/ DbResolveTrade
  \/ DbUpdateStats
  \/ \E r \in Runs : RunCrash(r)
  \/ DbCrash

SpecCrash == Init /\ [][NextCrash]_vars

(* The worker's operations, with local writes that may fail                *)

NextFail ==
  \/ Next
  \/ \E r \in Runs : WriteRaises(r)

SpecFail == Init /\ [][NextFail]_vars

(* Scans of a feed that also carries positions with an average price of 0  *)
(* and positions of a market whose id is not a hex condition id, followed   *)
(* by full and quick passes                                                  *)

BadMarket == <<"t", "e", "s", "t">>
OddRaw ==
  [conditionId : {MarketA, BadMarket}, outcome : {"Yes", "No"},
   size : {5000}, currentValue : {5000}, avgPrice : {0, 40}]

\* the monitoring loop sleeps; days pass until the quick window is exceeded
Elapse ==
  /\ now <= QuickWindowHours
  /\ now' = now + 24
  /\ UNCHANGED <<ledger, tz, runState, dbState, callState>>

NextOdd ==
  \/ Quiet /\ DiscoverWhales(StoreOwners, FeedVolumes)
  \/ Quiet /\ Elapse
  \/ Quiet /\ CheckWhalePositions(OddRaw)
  \/ \E r \in Runs : Quiet /\ StartFull(r)
  \/ \E r \in Runs : Quiet /\ StartQuick(r)
  \/ \E r \in Runs : CheckMarket(r)
  \/ \E r \in Runs : WriteResolution(r)

SpecOdd == Init /\ [][NextOdd]_vars

(* The whales table under add_whale and update_whale_volume called         *)
(* directly, discovery, scans, the analyzer's query and the passes of the  *)
(* tracker, over two days                                                  *)

WhaleVolumes == {50000, 60000}
WhaleNotes == {Some("vip")}
WhaleRaw ==
  [conditionId : {MarketA}, outcome : {"Yes"},
   size : {5000}, currentValue : {5000}, avgPrice : {50}]
MinResolved == {1}

NextWhales ==
  \/ Quiet /\ AddWhaleCall(Addresses, WhaleVolumes, WhaleNotes)
  \/ Quiet /\ UpdateWhaleVolumeCall(Addresses, WhaleVolumes)
  \/ Quiet /\ QualifiedWhalesCall(MinResolved)
  \/ ReturnCall
  \/ Quiet /\ call = NoCall /\ DiscoverWhales(Addresses, FeedVolumes)
  \/ Quiet /\ call = NoCall /\ CheckWhalePositions(WhaleRaw)
  \/ Quiet /\ call = NoCall /\ StartFull("tracker")
  \/ CheckMarket("tracker")
  \/ WriteResolution("tracker")
  \/ Quiet /\ call = NoCall /\ Tick

SpecWhales == Init /\ [][NextWhales]_vars

(* check_market_resolution called on every feed                            *)

CheckResolutionCall ==
  /\ call.op = "check_market_resolution"
  /\ ret = Null
  /\ ret' = Some(check_market_resolution(call.feed))
  /\ UNCHANGED <<ledger, now, tz, runState, dbState, call>>

InitOracle ==
  /\ LedgerInit
  /\ call \in [op : {"check_market_resolution"}, feed : OracleFeeds]
  /\ ret = Null

SpecOracle == InitOracle /\ [][CheckResolutionCall]_vars

-----------------------------------------------------------------------------
(* PolymarketAPI._request: the retry loop over the HTTP attempts; delays   *)
(* are in tenths of a second                                                *)

rate_limit_delay == 3
max_retries == 3
backoff_factor == 2


ConstantDelay(attempt) == rate_limit_delay

\* self._rate_limit_delay * (self._backoff_factor ** attempt)
BackoffDelay(attempt) == rate_limit_delay * backoff_factor ^ attempt

\* the value _request returns after the attempt numbered attempt (from 0)
\* ended with result r, Null if the loop goes on
RequestReturn(attempt, r) ==
  IF r = "200" THEN Some("json")
  ELSE IF r = "500" THEN Some("None")
  ELSE IF attempt = max_retries - 1 THEN Some("None")
  ELSE Null

\* the backoff sleeps of the attempt: a 429 always waits, an exception waits
\* unless the attempt was the last one
RequestWaits(attempt, r) ==
  IF r = "429" THEN <<BackoffDelay(attempt)>>
  ELSE IF r \in {"TimeoutError", "ClientError"} /\ attempt < max_retries - 1
    THEN <<BackoffDelay(attempt)>>
  ELSE <<>>

\* one iteration of for attempt in range(self._max_retries)
RequestAttempt ==
  /\ call.op = "_request"
  /\ ret = Null
  /\ call.attempt < max_retries
  /\ LET r == call.results[call.attempt + 1]
     IN /\ call' = [call EXCEPT !.attempt = @ + 1,
                                !.waits = @ \o RequestWaits(call.attempt, r)]
        /\ ret' = RequestReturn(call.attempt, r)
  /\ UNCHANGED <<ledger, now, tz, runState, dbState>>

InitRequest ==
  /\ LedgerInit
  /\ call \in [op : {"_request"},
               \* what session.get yields per attempt: a status or an exception
               results : [1..max_retries ->
                            {"200", "429", "500", "TimeoutError", "ClientError"}],
               attempt : {0}, waits : {<<>>}]
  /\ ret = Null

\* the event loop resumes the coroutine after every sleep and every get,
\* which is bounded by timeout=30
SpecRequest == InitRequest /\ [][RequestAttempt]_vars /\ WF_vars(RequestAttempt)

-----------------------------------------------------------------------------
(* TradeSignalsGenerator.detect_consensus_signals; rates and edges are in  *)
(* tenths of a percent                                                      *)

MaxSignals == 2

\* index of the group with the signal's key in the dict, 0 if there is none
KeyIndex(positions, signal) ==
  LET hits == {k \in DOMAIN positions :
                 /\ positions[k].market_id = signal.market_id
                 /\ positions[k].direction = signal.direction}
  IN IF hits = {} THEN 0 ELSE CHOOSE k \in hits : TRUE

\* the first loop: market_positions after the signals, in insertion order
RECURSIVE GroupSignals(_, _)
GroupSignals(positions, signals) ==
  IF signals = <<>> THEN positions
  ELSE LET signal == Head(signals)
           k == KeyIndex(positions, signal)
           withKey == IF k = 0
                        THEN Append(positions,
                                    [market_id |-> signal.market_id,
                                     direction |-> signal.direction,
                                     whales |-> <<>>, total_edge |-> 0])
                        ELSE positions
           entry == [address |-> signal.whale_address,
                     win_rate |-> signal.whale_stats.win_rate,
                     resolved_trades |-> signal.whale_stats.resolved_trades,
                     edge |-> signal.edge_estimate]
           j == IF k = 0 THEN Len(withKey) ELSE k
           grown == [withKey EXCEPT
                       ![j].whales = Append(@, entry),
                       ![j].total_edge = @ + signal.edge_estimate]
       IN GroupSignals(grown, Tail(signals))

RECURSIVE SumOver(_, _)
SumOver(s, field) ==
  IF s = <<>> THEN 0 ELSE Head(s)[field] + SumOver(Tail(s), field)

\* if len(position['whales']) >= 2
IsConsensus(position) == Len(position.whales) >= 2

\* _calculate_consensus_confidence; the averages are compared through the
\* sums (avg >= c exactly when sum >= c * count)
ConsensusConfidence(whale_count, sum_win_rate, total_edge, total_trades) ==
  LET score ==
        (IF whale_count < 4 THEN whale_count ELSE 4)
        + (IF sum_win_rate >= 700 * whale_count THEN 3
           ELSE IF sum_win_rate >= 650 * whale_count THEN 2 ELSE 1)
        + (IF total_edge >= 200 * whale_count THEN 3
           ELSE IF total_edge >= 150 * whale_count THEN 2 ELSE 1)
        + (IF total_trades >= 100 THEN 2 ELSE 1)
  IN IF score >= 10 THEN "VERY HIGH"
     ELSE IF score >= 8 THEN "HIGH"
     ELSE IF score >= 6 THEN "MEDIUM"
     ELSE "LOW"

\* the fields the second loop adds to a group it keeps
Completed(position) ==
  LET whale_count == Len(position.whales)
      sum_win_rate == SumOver(position.whales, "win_rate")
      total_trades == SumOver(position.whales, "resolved_trades")
  IN [market_id |-> position.market_id, direction |-> position.direction,
      whales |-> position.whales, total_edge |-> position.total_edge,
      whale_count |-> whale_count, sum_win_rate |-> sum_win_rate,
      total_resolved_trades |-> total_trades,
      consensus_confidence |->
        ConsensusConfidence(whale_count, sum_win_rate, position.total_edge,
                            total_trades)]

\* the sort key (avg_edge, avg_win_rate) of a is greater than that of b
KeyGreater(a, b) ==
  LET ea == a.total_edge * b.whale_count
      eb == b.total_edge * a.whale_count
      wa == a.sum_win_rate * b.whale_count
      wb == b.sum_win_rate * a.whale_count
  IN ea > eb \/ (ea = eb /\ wa > wb)

\* list.sort(reverse=True) is stable: x goes behind every element whose key
\* is not smaller
RECURSIVE InsertDesc(_, _)
InsertDesc(sorted, x) ==
  IF sorted = <<>> THEN <<x>>
  ELSE IF KeyGreater(x, Head(sorted)) THEN <<x>> \o sorted
  ELSE <<Head(sorted)>> \o InsertDesc(Tail(sorted), x)

RECURSIVE SortDesc(_)
SortDesc(s) ==
  IF s = <<>> THEN <<>>
  ELSE InsertDesc(SortDesc(SubSeq(s, 1, Len(s) - 1)), s[Len(s)])

RECURSIVE KeepConsensus(_)
KeepConsensus(positions) ==
  IF positions = <<>> THEN <<>>
  ELSE (IF IsConsensus(Head(positions)) THEN <<Completed(Head(positions))>>
        ELSE <<>>) \o KeepConsensus(Tail(positions))

detect_consensus_signals(signals) ==
  SortDesc(KeepConsensus(GroupSignals(<<>>, signals)))

SignalInputs ==
  {[market_id |-> m, direction |-> d, whale_address |-> a,
    whale_stats |-> IF a = "w1" THEN [win_rate |-> 700, resolved_trades |-> 60]
                    ELSE [win_rate |-> 600, resolved_trades |-> 20],
    edge_estimate |-> e] :
     m \in {MarketA, MarketB}, d \in Winners, a \in Addresses, e \in {60, 200}}

DetectConsensusCall ==
  /\ call.op = "detect_consensus_signals"
  /\ ret = Null
  /\ ret' = Some(detect_consensus_signals(call.signals))
  /\ UNCHANGED <<ledger, now, tz, runState, dbState, call>>

InitConsensus ==
  /\ LedgerInit
  /\ call \in [op : {"detect_consensus_signals"},
               signals : UNION {[1..n -> SignalInputs] : n \in 0..MaxSignals}]
  /\ ret = Null

SpecConsensus == InitConsensus /\ [][DetectConsensusCall]_vars

-----------------------------------------------------------------------------
(* TradeSignalsGenerator: get_proven_whales, get_recent_trades,            *)
(* calculate_edge, generate_signals. Percentages are kept in tenths of a   *)
(* percent (round(x, 1)), market prices in thousandths.                    *)

MIN_WIN_RATE == 60
MIN_RESOLVED_TRADES == 20
MIN_ROI == 10
RECENT_HOURS == 24

\* one row of the grouped LEFT JOIN of whales and trades
WhaleAggregate(T, address) ==
  LET mine == {i \in DOMAIN T : T[i].whale_address = address}
      res == {i \in mine : T[i].resolved}
  IN [address |-> address,
      resolved_trades |-> Cardinality(res),
      wins |-> Cardinality({i \in mine : T[i].outcome = Some("WIN")}),
      losses |-> Cardinality({i \in mine : T[i].outcome = Some("LOSS")}),
      total_pnl |-> SumRows(T, res, "pnl"),
      total_wagered |-> SumRows(T, res, "size")]

WinRateAny(row) == TRUE

\* win_rate >= MIN_WIN_RATE with win_rate = wins / resolved_trades * 100
WinRateOk(row) == row.wins * 100 >= MIN_WIN_RATE * row.resolved_trades

\* roi >= MIN_ROI with roi = total_pnl / total_wagered * 100, or 0 when
\* nothing was wagered
RoiOk(row) ==
  IF row.total_wagered > 0
    THEN row.total_pnl * 100 >= MIN_ROI * row.total_wagered
    ELSE 0 >= MIN_ROI

\* the HAVING clause and the two tests of the loop
IsProven(row) ==
  /\ row.resolved_trades >= MIN_RESOLVED_TRADES
  /\ row.resolved_trades > 0
  /\ WinRateOk(row)
  /\ RoiOk(row)

ProvenWhale(row) ==
  [address |-> row.address,
   resolved_trades |-> row.resolved_trades,
   win_rate |-> RoundHalfEven(row.wins * 1000, row.resolved_trades),
   roi |-> IF row.total_wagered > 0
             THEN RoundHalfEven(row.total_pnl * 1000, row.total_wagered)
             ELSE 0,
   total_pnl |-> row.total_pnl,
   wins |-> row.wins,
   losses |-> row.losses]

RECURSIVE ProvenRows(_, _, _)
ProvenRows(W, T, order) ==
  IF order = <<>> THEN <<>>
  ELSE (IF Head(order) \in DOMAIN W /\ IsProven(WhaleAggregate(T, Head(order)))
          THEN <<ProvenWhale(WhaleAggregate(T, Head(order)))>>
          ELSE <<>>) \o ProvenRows(W, T, Tail(order))

get_proven_whales(W, T) == SortDescBy(ProvenRows(W, T, AddressOrder), "roi")

\* datetime(entry_time) >= datetime(cutoff) with cutoff = datetime.now() - hours
RECURSIVE RecentRows(_, _, _, _)
RecentRows(T, whale_address, hours, i) ==
  IF i > Len(T) THEN <<>>
  ELSE (IF /\ T[i].whale_address = whale_address
           /\ T[i].entry_time >= (now + tz) - hours
           /\ IsUnresolved(T[i])
          THEN <<T[i]>> ELSE <<>>) \o RecentRows(T, whale_address, hours, i + 1)

get_recent_trades(T, whale_address, hours) == RecentRows(T, whale_address, hours, 1)

\* calculate_edge: whale_win_rate and whale_roi in tenths of a percent,
\* current_price in thousandths; the result is round(edge, 1) in tenths
AdjustedProb(whale_win_rate, whale_roi) ==
  Min(950000, whale_win_rate * Min(1500, 1000 + whale_roi))

EdgeOver(adjusted_prob, market_implied_prob) ==
  RoundHalfEven((adjusted_prob - market_implied_prob * 1000) * 1000,
                market_implied_prob * 1000)

calculate_edge(whale_win_rate, whale_roi, current_price, direction) ==
  IF Upper(direction) = "YES"
    THEN EdgeOver(AdjustedProb(whale_win_rate, whale_roi), current_price)
    ELSE EdgeOver(AdjustedProb(whale_win_rate, whale_roi), 1000 - current_price)

\* _calculate_confidence
Confidence(whale, edge) ==
  LET score ==
        (IF whale.win_rate >= 700 THEN 3 ELSE IF whale.win_rate >= 650 THEN 2 ELSE 1)
        + (IF whale.resolved_trades >= 50 THEN 3
           ELSE IF whale.resolved_trades >= 30 THEN 2 ELSE 1)
        + (IF edge >= 200 THEN 3 ELSE IF edge >= 150 THEN 2 ELSE 1)
  IN IF score >= 8 THEN "HIGH" ELSE IF score >= 6 THEN "MEDIUM" ELSE "LOW"

EdgeAtLeast(edge) == edge >= 50

\* if edge > 5
EdgePasses(edge) == edge > 50

CurrentPrice(trade, price_data) ==
  IF Upper(trade.side) = "YES" THEN price_data.yes_price ELSE price_data.no_price

TradeEdge(whale, trade, price_data) ==
  calculate_edge(whale.win_rate, whale.roi, CurrentPrice(trade, price_data),
                 Upper(trade.side))

Signal(whale, trade, price_data) ==
  [market_id |-> trade.market_id,
   direction |-> Upper(trade.side),
   whale_address |-> whale.address,
   whale_stats |-> [win_rate |-> whale.win_rate,
                    resolved_trades |-> whale.resolved_trades,
                    total_pnl |-> whale.total_pnl,
                    roi |-> whale.roi],
   price_data |-> [whale_entry |-> EntryPriceOrDefault(trade),
                   current_yes |-> price_data.yes_price,
                   current_no |-> price_data.no_price,
                   recommended_price |-> CurrentPrice(trade, price_data)],
   edge_estimate |-> TradeEdge(whale, trade, price_data),
   trade_size |-> trade.size,
   confidence |-> Confidence(whale, TradeEdge(whale, trade, price_data))]

\* the body of the inner loop for one trade; prices maps a market id to what
\* get_current_market_price returns for it
SignalsOfTrade(whale, trade, prices) ==
  IF trade.market_id = NoMarket THEN <<>>
  ELSE LET price_data == IF trade.market_id \in DOMAIN prices
                           THEN prices[trade.market_id] ELSE Null
       IN IF price_data = Null THEN <<>>
          ELSE IF ~price_data[1].active THEN <<>>
          ELSE IF EdgePasses(TradeEdge(whale, trade, price_data[1]))
            THEN <<Signal(whale, trade, price_data[1])>>
          ELSE <<>>

RECURSIVE SignalsOfTrades(_, _, _)
SignalsOfTrades(whale, recent_trades, prices) ==
  IF recent_trades = <<>> THEN <<>>
  ELSE SignalsOfTrade(whale, Head(recent_trades), prices)
       \o SignalsOfTrades(whale, Tail(recent_trades), prices)

RECURSIVE SignalsOfWhales(_, _, _)
SignalsOfWhales(proven_whales, T, prices) ==
  IF proven_whales = <<>> THEN <<>>
  ELSE SignalsOfTrades(Head(proven_whales),
                       get_recent_trades(T, Head(proven_whales).address, RECENT_HOURS),
                       prices)
       \o SignalsOfWhales(Tail(proven_whales), T, prices)

generate_signals(W, T, prices) ==
  SortDescBy(SignalsOfWhales(get_proven_whales(W, T), T, prices), "edge_estimate")

-----------------------------------------------------------------------------
(* Ledgers with a resolution history, for the analysis scripts: every      *)
(* whale has big wins (entry 0.50), small wins (entry 0.80), losses and    *)
(* positions still held, each on a market of its own                       *)

HistoryRow(a, profile, k) ==
  LET won == k <= profile.big + profile.small
      closed == k <= profile.big + profile.small + profile.lost
      row == [NewTradeRow(a, <<"0", "x", a, ToString(k)>>, IF won \/ ~closed THEN "YES" ELSE "NO",
                          MinPositionSize,
                          IF won /\ k > profile.big THEN 80 ELSE DefaultEntryPrice)
                EXCEPT !.entry_time = 0]
  IN IF closed THEN ResolvedRow(row, "YES") ELSE row

History(a, profile) ==
  [k \in 1..(profile.big + profile.small + profile.lost + profile.held) |->
     HistoryRow(a, profile, k)]

\* the position a whale opened on MarketA, if any
OpenPosition(a, side) ==
  IF side = Null THEN <<>>
  ELSE <<[NewTradeRow(a, MarketA, side[1], MinPositionSize, DefaultEntryPrice)
            EXCEPT !.entry_time = 0]>>

HistoryInit(Profiles, Sides) ==
  /\ now \in {0, 2 * RECENT_HOURS}
  /\ tz = 0
  /\ whales = [a \in Addresses |-> NewWhaleRow(50000, Null)]
  /\ \E p1 \in Profiles, p2 \in Profiles : \E s1 \in Sides, s2 \in Sides :
       trades = History("w1", p1) \o OpenPosition("w1", s1)
                \o History("w2", p2) \o OpenPosition("w2", s2)
  /\ markets =
       [m \in {trades[i].market_id : i \in DOMAIN trades} |->
          IF \E i \in DOMAIN trades : trades[i].market_id = m /\ trades[i].resolved
            THEN [NewMarketRow EXCEPT !.resolved = TRUE, !.resolution = Some("YES")]
            ELSE NewMarketRow]
  /\ pc = [r \in Runs |-> "idle"]
  /\ pending = [r \in Runs |-> {}]
  /\ cur = [r \in Runs |-> NoCheck]
  /\ snap = [r \in Runs |-> {}]
  /\ dbpc = "idle"
  /\ dbq = <<>>
  /\ dbres = "NONE"

(* generate_signals over the ledgers with a history                        *)

\* 20 resolved: 60% and ROI 20%; 55% and ROI 10%; 80% and ROI 7.5%;
\* 85% and ROI 10%; and 19 resolved with 63% and ROI 26%
SignalProfiles ==
  {[big |-> 12, small |-> 0, lost |-> 8, held |-> 0],
   [big |-> 11, small |-> 0, lost |-> 9, held |-> 0],
   [big |-> 2, small |-> 14, lost |-> 4, held |-> 0],
   [big |-> 1, small |-> 16, lost |-> 3, held |-> 0],
   [big |-> 12, small |-> 0, lost |-> 7, held |-> 1]}

\* what get_current_market_price returns for MarketA
\* the feed's two prices need not add up to 1
PriceData ==
  {Null} \cup {Some([yes_price |-> y, no_price |-> n, active |-> b]) :
                 y \in {500, 685, 686, 900}, n \in {500, 315, 314, 100},
                 b \in BOOLEAN}

GenerateSignalsCall ==
  /\ call.op = "generate_signals"
  /\ ret = Null
  /\ ret' = Some(generate_signals(whales, trades, call.prices))
  /\ UNCHANGED <<ledger, now, tz, runState, dbState, call>>

InitSignals ==
  /\ HistoryInit(SignalProfiles, {Null, Some("YES"), Some("NO")})
  /\ call \in [op : {"generate_signals"}, prices : [{MarketA} -> PriceData]]
  /\ ret = Null

SpecSignals == InitSignals /\ [][GenerateSignalsCall]_vars

(* The analyzer's gate over the ledgers with a history                     *)

\* 5 resolved; 5 resolved and 6 held; 10 resolved; 9 resolved and 3 held
ScoringProfiles ==
  {[big |-> 3, small |-> 0, lost |-> 2, held |-> 0],
   [big |-> 3, small |-> 0, lost |-> 2, held |-> 6],
   [big |-> 6, small |-> 0, lost |-> 4, held |-> 0],
   [big |-> 5, small |-> 0, lost |-> 4, held |-> 3]}

ScoringMins == {5, 10}

WhalePerformanceCall(Owners, Mins) ==
  /\ call = NoCall
  /\ \E a \in Owners : \E min_resolved_trades \in Mins :
       /\ call' = [op |-> "get_whale_performance", address |-> a,
                   total_volume |-> min_resolved_trades, notes |-> Null]
       /\ ret' = Some(get_whale_performance(trades, a, min_resolved_trades))
  /\ UNCHANGED <<ledger, now, tz, runState, dbState>>

InitScoring ==
  /\ HistoryInit(ScoringProfiles, {Null})
  /\ call = NoCall
  /\ ret = Null

NextScoring ==
  \/ WhalePerformanceCall(Addresses, ScoringMins)
  \/ QualifiedWhalesCall(ScoringMins)
  \/ ReturnCall

SpecScoring == InitScoring /\ [][NextScoring]_vars

----------------------------------------------------------------------------
(* Properties *)

ResolvedOf(a) ==
  {i \in DOMAIN trades : trades[i].whale_address = a /\ trades[i].resolved}
ResolvedAs(a, outcome) ==
  {i \in ResolvedOf(a) : trades[i].outcome = Some(outcome)}
Counted(a) == whales[a].win_count + whales[a].loss_count

\* C1: when resolution runs on separate connections resolve the same market
\* concurrently, a position is never counted twice: a whale's win_count +
\* loss_count never exceeds the number of its resolved positions.
C1_NoDoubleIncrement ==
  \A a \in DOMAIN whales : Counted(a) <= Cardinality(ResolvedOf(a))

\* C2: with scans, discoveries and passes run one after another, every
\* position has a tracked owner, and each owner's win_count is the number
\* of its positions resolved as WIN and its loss_count the number resolved
\* as LOSS (so the sum never exceeds the resolved positions).
C2_CountersMatchResolved ==
  /\ \A i \in DOMAIN trades : trades[i].whale_address \in DOMAIN whales
  /\ \A a \in DOMAIN whales :
       /\ whales[a].win_count = Cardinality(ResolvedAs(a, "WIN"))
       /\ whales[a].loss_count = Cardinality(ResolvedAs(a, "LOSS"))
       /\ Counted(a) <= Cardinality(ResolvedOf(a))

\* one batch has given a whale a win and a loss
C2_Witness ==
  \E a \in DOMAIN whales : whales[a].win_count = 1 /\ whales[a].loss_count = 1

\* C3: the recorded outcome of a resolved market never changes.
C3_OutcomeImmutable ==
  [][\A m \in DOMAIN markets :
       markets[m].resolved => markets'[m].resolution = markets[m].resolution]_vars

\* C4: a resolved position has outcome WIN or LOSS and a pnl, an unresolved
\* position has neither.
C4_ResolvedFieldsTogether ==
  \A i \in DOMAIN trades :
    IF trades[i].resolved
      THEN trades[i].outcome \in {Some("WIN"), Some("LOSS")} /\ trades[i].pnl # Null
      ELSE trades[i].outcome = Null /\ trades[i].pnl = Null

\* a position resolved by resolve_market_trades next to an open one
C4_Witness ==
  \E i, j \in DOMAIN trades :
    /\ trades[i].resolved /\ trades[i].pnl \in {Some(5000), Some(-5000)}
    /\ ~trades[j].resolved

\* C5: no step of a resolution pass (resolve_market_trades or
\* Database.resolve_market in flight before or after the step) changes a
\* position that is already resolved.
C5_ResolvedIsTerminal ==
  [][~(Quiet /\ Quiet') =>
       \A i \in DOMAIN trades : trades[i].resolved => trades'[i] = trades[i]]_vars

\* two positions of one market that passes resolved with different winners:
\* resolve_market_trades with YES, Database.resolve_market with NO
C5_Witness ==
  \E i, j \in DOMAIN trades :
    /\ trades[i].market_id = trades[j].market_id
    /\ trades[i].side = "YES" /\ trades[i].outcome = Some("WIN")
    /\ trades[i].pnl = Some(5000)
    /\ trades[j].side = "NO" /\ trades[j].outcome = Some("WIN")
    /\ trades[j].pnl = Some(2500)

\* C6: no call changes the stored outcome or pnl of a resolved position
\* (resolve_trade on a resolved id is a no-op).
C6_ResolveTradeNoOp ==
  [][\A i \in DOMAIN trades :
       trades[i].resolved => /\ trades'[i].outcome = trades[i].outcome
                             /\ trades'[i].pnl = trades[i].pnl]_vars

\* C7: no two positions share (participant, market, side).
C7_UniqueKey ==
  \A i, j \in DOMAIN trades :
    i # j => \/ trades[i].whale_address # trades[j].whale_address
             \/ trades[i].market_id # trades[j].market_id
             \/ trades[i].side # trades[j].side

\* C8: with no operation in flight, every resolved position of a tracked
\* participant has its counter increment.
C8_NoHalfAppliedResolution ==
  Quiet => \A a \in DOMAIN whales : Counted(a) >= Cardinality(ResolvedOf(a))

Contradicts(r) ==
  /\ cur[r].market_id \in DOMAIN markets
  /\ markets[cur[r].market_id].resolved
  /\ markets[cur[r].market_id].resolution # Some(cur[r].winner)

\* C9: resolve_market_trades called with a winner that contradicts the
\* recorded outcome of the market changes neither the market nor any trade.
C9_ContradictionRejected ==
  [][\A r \in Runs :
       (pc[r] = "write" /\ pc'[r] # "write" /\ Contradicts(r))
         => (markets' = markets /\ trades' = trades)]_vars

\* C10: resolve_market_trades(M, W) resolves every unresolved position of
\* M, as WIN iff its side is W and as LOSS otherwise, and changes no other
\* position.
C10_ResolvesMarketBySide ==
  [][\A r \in Runs :
       (pc[r] = "write" /\ pc'[r] # "write") =>
         \A i \in DOMAIN trades :
           IF trades[i].market_id = cur[r].market_id /\ ~trades[i].resolved
             THEN /\ trades'[i].resolved
                  /\ trades'[i].outcome =
                       Some(IF trades[i].side = cur[r].winner THEN "WIN" ELSE "LOSS")
             ELSE trades'[i] = trades[i]]_vars

\* W = YES: the YES position of the market is a WIN, its NO position a LOSS
C10_Witness ==
  \E i, j \in DOMAIN trades :
    /\ trades[i].market_id = trades[j].market_id
    /\ trades[i].side = "YES" /\ trades[i].outcome = Some("WIN")
    /\ trades[j].side = "NO" /\ trades[j].outcome = Some("LOSS")

\* C11: every step of a resolution operation (resolve_market_trades or
\* Database.resolve_market / resolve_trades_by_market) that resolves a
\* position with an entry price above 0 records pnl = size/entry_price - size
\* for a WIN and pnl = -size for a LOSS.
C11_PnlFormula ==
  [][~(Quiet /\ Quiet') =>
       \A i \in DOMAIN trades :
         (~trades[i].resolved /\ trades'[i].resolved /\ trades[i].entry_price > 0) =>
           trades'[i].pnl =
             Some(IF trades'[i].outcome = Some("WIN")
                    THEN (trades[i].size * 100) \div trades[i].entry_price - trades[i].size
                    ELSE 0 - trades[i].size)]_vars

\* C12: a position whose entry price is 0 is never resolved (it is left
\* unresolved when its market resolves), while the write step of
\* resolve_market_trades resolves the other unresolved positions of the
\* market.
C12_ZeroEntryLeftUnresolved ==
  [][/\ \A i \in DOMAIN trades :
          (trades[i].entry_price = 0 /\ ~trades[i].resolved) => ~trades'[i].resolved
     /\ \A r \in Runs : (pc[r] = "write" /\ pc'[r] # "write") =>
          \A i \in DOMAIN trades :
            (trades[i].market_id = cur[r].market_id /\ trades[i].entry_price > 0)
              => trades'[i].resolved]_vars

\* C18: a pass, full or quick, never queues for the oracle a market id that
\* does not begin with 0x, and a position on such an id is never resolved.
C18_OnlyValidIdsChecked ==
  /\ [](\A r \in Runs : \A m \in pending[r] : LikeHex(m))
  /\ [][\A i \in DOMAIN trades :
          (~LikeHex(trades[i].market_id) /\ ~trades[i].resolved)
            => ~trades'[i].resolved]_vars

\* C13: whatever becomes of the local write for one market, the pass goes on
\* with the markets it has not checked yet: it is over only when none is
\* left.
C13_PassSurvivesFailure ==
  [][\A r \in Runs :
       (pc[r] = "write" /\ pc'[r] # "write") =>
         /\ pending'[r] = pending[r] \ {cur[r].market_id}
         /\ pc'[r] = "idle" <=> pending[r] \ {cur[r].market_id} = {}]_vars

\* C14: a check step that yields no winner changes nothing in the ledger,
\* and under SpecLive (full passes keep running, a settled market is in the
\* end reported with its winner) every unresolved position on a market with
\* a valid id is eventually resolved.
C14_EventuallyResolved ==
  /\ [][\A r \in Runs : pc[r] = "loop" => ledger' = ledger]_vars
  /\ \A i \in 1..MaxTrades :
       (i \in DOMAIN trades /\ LikeHex(trades[i].market_id) /\ ~trades[i].resolved)
         ~> (i \in DOMAIN trades /\ trades[i].resolved)

\* a pass has checked a market without a result and moved on: the market's
\* position is still open and nothing was recorded
C14_Witness ==
  \E r \in Runs : \E i \in DOMAIN trades :
    /\ pc[r] = "loop"
    /\ cur[r] = NoCheck
    /\ ~trades[i].resolved
    /\ trades[i].market_id \in get_unresolved_market_ids
    /\ trades[i].market_id \notin pending[r]
    /\ trades[i].market_id \in DOMAIN markets
    /\ ~markets[trades[i].market_id].resolved

ResolutionCallDone == call.op = "check_market_resolution" /\ ret # Null

WellFormed(tokens) == \A k \in DOMAIN tokens : tokens[k].kind = "ok"
Flagged(token) == token.winner /\ Upper(token.outcome) \in Winners
Settled(token) == token.price >= 99 /\ Upper(token.outcome) \in Winners
FirstOf(tokens, P(_)) ==
  LET k == CHOOSE j \in DOMAIN tokens :
             P(tokens[j]) /\ \A h \in 1..(j - 1) : ~P(tokens[h])
  IN Upper(tokens[k].outcome)

\* C16: on an HTTP 200 answer with a body and well-formed tokens the check
\* returns, for a closed market, the outcome of the first token flagged as
\* winner if there is one, otherwise the outcome of the first token priced
\* at 0.99 or more, and None if the market is open or neither rule yields
\* YES or NO.
C16_WinnerRule ==
  ResolutionCallDone =>
    LET a == Head(call.feed)
    IN (a.kind = "http" /\ a.status = 200 /\ a.body # Null
          /\ WellFormed(a.body[1].tokens)) =>
        (LET tokens == a.body[1].tokens
         IN ret[1] =
              IF ~a.body[1].closed THEN "NONE"
              ELSE IF \E k \in DOMAIN tokens : Flagged(tokens[k])
                     THEN FirstOf(tokens, Flagged)
              ELSE IF \E k \in DOMAIN tokens : Settled(tokens[k])
                     THEN FirstOf(tokens, Settled)
              ELSE "NONE")

\* C17: a check answered with HTTP 429 is retried: its result is the result
\* of the answer to the next request.
C17_RetriedAfter429 ==
  (ResolutionCallDone /\ Len(call.feed) = 2 /\ Head(call.feed) = TooManyRequests)
    => ret[1] = Handlers(ParseResponse(call.feed[2]))

\* C19: no step deletes a whale or a trade, and a step that is not the write
\* of a resolution (a scan, a discovery, add_whale, update_whale_volume, the
\* analyzer's query, the start of a pass, an oracle check) leaves every
\* whale's win_count and loss_count and every trade's resolved flag,
\* outcome and pnl unchanged.
C19_OnlyResolutionWritesAggregates ==
  [][/\ \A a \in DOMAIN whales : a \in DOMAIN whales'
     /\ Len(trades') >= Len(trades)
     /\ (\A r \in Runs : pc[r] # "write") =>
          /\ \A a \in DOMAIN whales :
               /\ whales'[a].win_count = whales[a].win_count
               /\ whales'[a].loss_count = whales[a].loss_count
          /\ \A i \in DOMAIN trades :
               /\ trades'[i].resolved = trades[i].resolved
               /\ trades'[i].outcome = trades[i].outcome
               /\ trades'[i].pnl = trades[i].pnl]_vars

\* update_whale_volume has just refreshed the volume of a whale that has a
\* win on record, and a scan has added a position after that resolution
C19_Witness ==
  /\ call.op = "update_whale_volume"
  /\ call.address \in DOMAIN whales
  /\ whales[call.address].win_count = 1
  /\ whales[call.address].total_volume = 60000
  /\ \E i, j \in DOMAIN trades : i < j /\ trades[i].resolved /\ ~trades[j].resolved

\* C20: add_whale on a new address creates the whale with the given volume
\* and notes and zero win and loss counts and returns true; on an existing
\* address it returns false and leaves the whales table unchanged.
C20_AddWhaleIdempotent ==
  [][\A a \in Addresses :
       (call = NoCall /\ call'.op = "add_whale" /\ call'.address = a) =>
         IF a \in DOMAIN whales
           THEN ret' = Some(FALSE) /\ whales' = whales
           ELSE /\ ret' = Some(TRUE)
                /\ DOMAIN whales' = DOMAIN whales \cup {a}
                /\ whales'[a] = [first_seen |-> now,
                                 total_volume |-> call'.total_volume,
                                 win_count |-> 0, loss_count |-> 0,
                                 notes |-> call'.notes]
                /\ \A b \in DOMAIN whales : whales'[b] = whales[b]]_vars

\* add_whale has returned false for a whale first seen a day earlier, with a
\* win on record, another volume and other notes than the call's
C20_Witness ==
  /\ call.op = "add_whale"
  /\ ret = Some(FALSE)
  /\ call.address \in DOMAIN whales
  /\ whales[call.address].win_count = 1
  /\ whales[call.address].first_seen < now
  /\ whales[call.address].total_volume # call.total_volume
  /\ whales[call.address].notes # call.notes

\* C28: the scans of one tracker never leave two positions with the same
\* (participant, market, side), whether the feed repeats a position in one
\* response or in a later scan, and every position recorded by a scan has
\* its market record.
C28_ScansNeverDuplicate ==
  /\ \A i \in DOMAIN trades : \A j \in DOMAIN trades :
        (/\ trades[i].whale_address = trades[j].whale_address
         /\ trades[i].market_id = trades[j].market_id
         /\ trades[i].side = trades[j].side) => i = j
  /\ \A i \in DOMAIN trades : trades[i].market_id \in DOMAIN markets

C28_Witness ==
  \E i, j \in DOMAIN trades :
    /\ i < j
    /\ trades[i].whale_address = trades[j].whale_address
    /\ trades[i].market_id = trades[j].market_id
    /\ trades[i].side # trades[j].side
    /\ trades[i].resolved
    /\ ~trades[j].resolved

\* C29: every market a quick pass sets out to check is referenced by an
\* unresolved position entered within the last QuickWindowHours, and is one
\* of the markets a full pass over the same ledger would check.
C29_QuickSubsetOfFull ==
  [][StartQuick("scheduler") =>
       \A m \in pending'["scheduler"] :
         /\ \E i \in UnresolvedIds(m) :
              now - trades[i].entry_time <= QuickWindowHours
         /\ m \in get_unresolved_market_ids]_vars

\* C30: a resolved position lies on a market whose record is resolved, and its
\* outcome is WIN exactly when its side is the market's recorded resolution.
C30_OutcomeAgreesWithMarket ==
  \A i \in DOMAIN trades :
    trades[i].resolved =>
      /\ trades[i].market_id \in DOMAIN markets
      /\ markets[trades[i].market_id].resolved
      /\ (trades[i].outcome = Some("WIN"))
           <=> (markets[trades[i].market_id].resolution = Some(trades[i].side))

\* C26: a position written with add_trade appears in get_unresolved_trades
\* with the participant, market, side, size and entry price it was written
\* with, keeps appearing unchanged while it is unresolved, and no resolved
\* position appears (so it is gone after resolve_trade on its id).
SameEntry(r, t) ==
  /\ r.whale_address = t.whale_address
  /\ r.market_id = t.market_id
  /\ r.side = t.side
  /\ r.size = t.size
  /\ r.entry_price = t.entry_price

C26_AddTradeRoundTrip ==
  [][LET U == get_unresolved_trades(trades)
         V == get_unresolved_trades(trades')
     IN /\ \A a \in StoreOwners : \A m \in StoreMarkets : \A side \in Winners :
             \A size \in StoreSizes : \A price \in StorePrices :
               trades' = add_trade(trades, a, m, side, size, price) =>
                 \E id \in DOMAIN V \ DOMAIN trades :
                   SameEntry(V[id], [whale_address |-> a, market_id |-> m,
                                     side |-> side, size |-> size,
                                     entry_price |-> price])
        /\ \A id \in DOMAIN U :
             IF trades'[id].resolved THEN id \notin DOMAIN V
             ELSE id \in DOMAIN V /\ SameEntry(V[id], U[id])
        /\ \A id \in DOMAIN V : ~trades'[id].resolved]_vars

C26_Witness ==
  \E i, j \in DOMAIN trades :
    /\ trades[i].resolved /\ trades[i].pnl \in {Some(p) : p \in StorePnls}
    /\ i \notin DOMAIN get_unresolved_trades(trades)
    /\ j \in DOMAIN get_unresolved_trades(trades)

\* C27: a request makes at most max_retries HTTP attempts and then returns:
\* every attempt before the last made ended in a timeout, a client error or
\* a 429, each backoff delay is backoff_factor times the one before, a 200
\* returns the body with no further attempt, and a request whose attempts
\* all failed returns None.
Retried == {"429", "TimeoutError", "ClientError"}

C27_RequestTerminates ==
  /\ [](/\ call.attempt <= max_retries
        /\ \A k \in 1..call.attempt : k < call.attempt => call.results[k] \in Retried
        /\ \A k \in DOMAIN call.waits :
             /\ k = 1 => call.waits[k] = rate_limit_delay
             /\ k > 1 => call.waits[k] = backoff_factor * call.waits[k - 1]
        /\ ret # Null =>
             /\ call.attempt >= 1
             /\ (ret = Some("json")) <=> (call.results[call.attempt] = "200")
             /\ ret \in {Some("json"), Some("None")}
        /\ (ret = Null /\ call.attempt >= 1) =>
             /\ call.attempt < max_retries
             /\ Len(call.waits) = call.attempt)
  /\ <>(ret # Null)

C27_Witness ==
  /\ call.op = "_request"
  /\ call.attempt = max_retries
  /\ \A k \in 1..max_retries : call.results[k] \in Retried
  /\ \E k \in 1..max_retries : call.results[k] = "429"
  /\ \E k \in 1..max_retries : call.results[k] = "TimeoutError"
  /\ Len(call.waits) >= 2
  /\ ret = Some("None")

\* C21: every group returned by detect_consensus_signals holds at least two
\* distinct participants, all on the group's (market, direction) key.
DistinctAddresses(position) ==
  Cardinality({position.whales[k].address : k \in DOMAIN position.whales})

C21_ConsensusNeedsTwoParticipants ==
  (call.op = "detect_consensus_signals" /\ ret # Null) =>
    \A k \in DOMAIN ret[1] :
      /\ DistinctAddresses(ret[1][k]) >= 2
      /\ \A e \in DOMAIN ret[1][k].whales :
           \E s \in DOMAIN call.signals :
             /\ call.signals[s].whale_address = ret[1][k].whales[e].address
             /\ call.signals[s].market_id = ret[1][k].market_id
             /\ call.signals[s].direction = ret[1][k].direction

\* C22: every signal of generate_signals belongs to a whale with at least
\* MIN_RESOLVED_TRADES resolved positions, a win rate over them of at least
\* MIN_WIN_RATE percent and an ROI over them of at least MIN_ROI percent.
ResolvedCount(a) == Cardinality(ResolvedOf(a))
WinCount(a) == Cardinality(ResolvedAs(a, "WIN"))
PnlSum(a) == SumRows(trades, ResolvedOf(a), "pnl")
WageredSum(a) == SumRows(trades, ResolvedOf(a), "size")

MeetsThresholds(a) ==
  /\ ResolvedCount(a) >= MIN_RESOLVED_TRADES
  /\ WinCount(a) * 100 >= MIN_WIN_RATE * ResolvedCount(a)
  /\ WageredSum(a) > 0
  /\ PnlSum(a) * 100 >= MIN_ROI * WageredSum(a)

C22_SignalsOnlyFromProven ==
  (call.op = "generate_signals" /\ ret # Null) =>
    \A k \in DOMAIN ret[1] : MeetsThresholds(ret[1][k].whale_address)

C22_Witness ==
  /\ call.op = "generate_signals"
  /\ ret # Null
  /\ Len(ret[1]) = 1
  /\ ret[1][1].direction = "YES"
  /\ ret[1][1].price_data.current_yes = 500
  /\ \E a \in Addresses :
       /\ a # ret[1][1].whale_address
       /\ ResolvedCount(a) >= MIN_RESOLVED_TRADES
       /\ WinCount(a) * 100 >= MIN_WIN_RATE * ResolvedCount(a)
       /\ ~MeetsThresholds(a)
       /\ \E i \in DOMAIN trades :
            /\ trades[i].whale_address = a
            /\ IsUnresolved(trades[i])
            /\ trades[i].market_id = ret[1][1].market_id
            /\ trades[i].side = ret[1][1].direction

\* C23: the edge of every signal is (implied - market) / market * 100 rounded
\* to one decimal, where market is the current YES price for a YES position
\* and, for a NO position, 1 minus the current YES price or the current NO
\* price.
ImpliedProbabilityOf(signal) ==
  AdjustedProb(signal.whale_stats.win_rate, signal.whale_stats.roi)

MarketImpliedOf(signal) ==
  IF signal.direction = "YES" THEN {signal.price_data.current_yes}
  ELSE {1000 - signal.price_data.current_yes, signal.price_data.current_no}

C23_EdgeAgainstOwnSide ==
  (call.op = "generate_signals" /\ ret # Null) =>
    \A k \in DOMAIN ret[1] :
      \E market_implied_prob \in MarketImpliedOf(ret[1][k]) :
        ret[1][k].edge_estimate
          = EdgeOver(ImpliedProbabilityOf(ret[1][k]), market_implied_prob)

\* C25: a candidate position (proven whale, recent open position, active
\* market with a price) yields a signal exactly when its computed edge is
\* greater than 5: none at 5.0, one at 5.1.
Candidates ==
  {c \in [whale : {get_proven_whales(whales, trades)[k] :
                     k \in DOMAIN get_proven_whales(whales, trades)},
          trade : {trades[i] : i \in DOMAIN trades}] :
     /\ c.trade.whale_address = c.whale.address
     /\ IsUnresolved(c.trade)
     /\ c.trade.entry_time >= now - RECENT_HOURS
     /\ c.trade.market_id \in DOMAIN call.prices
     /\ call.prices[c.trade.market_id] # Null
     /\ call.prices[c.trade.market_id][1].active}

CandidateEdge(c) == TradeEdge(c.whale, c.trade, call.prices[c.trade.market_id][1])

HasSignal(c) ==
  \E k \in DOMAIN ret[1] :
    /\ ret[1][k].whale_address = c.whale.address
    /\ ret[1][k].market_id = c.trade.market_id
    /\ ret[1][k].direction = Upper(c.trade.side)

PositionCount(a) == Cardinality({i \in DOMAIN trades : trades[i].whale_address = a})

C24_GateCountsResolvedOnly ==
  /\ call.op = "get_whale_performance" =>
       (ret[1] = Null) <=> (ResolvedCount(call.address) < call.total_volume)
  /\ call.op = "get_qualified_whales" =>
       \A a \in Addresses :
         (\E k \in DOMAIN ret[1] : ret[1][k].address = a)
           <=> (ResolvedCount(a) >= call.total_volume)

C24_Witness ==
  /\ call.op = "get_qualified_whales"
  /\ call.total_volume = 10
  /\ Len(ret[1]) = 1
  /\ \E a \in Addresses :
       /\ ResolvedCount(a) = 5
       /\ PositionCount(a) > 10
       /\ \A k \in DOMAIN ret[1] : ret[1][k].address # a

====
